---- MODULE Spec2Model ----
(***************************************************************************)
(* futaba: the confusable-homoglyph text filter (cogs/filter/filter.py)    *)
(* and the join-alert storage of WelcomeModel (sql/models/welcome.py).     *)
(*                                                                         *)
(* A string is a sequence of Unicode code points.  The code points used:   *)
(*   32 ' '   42 '*'   46 '.'   65 'A'   97 'a'   91 '['   92 '\'   93 ']' *)
(*   160 NBSP   1072 CYRILLIC SMALL LETTER A   8232 LINE SEPARATOR         *)
(*   8233 PARAGRAPH SEPARATOR                                              *)
(***************************************************************************)
EXTENDS Integers, Sequences, FiniteSets, TLC

VARIABLES
    confusables_data,  \* the table behind confusables.is_confusable
    filters,           \* Filter objects: slot -> NoFilter or [text, regex]
    raised,            \* exception raised by the last Filter(...) call
    calls,             \* matches() activations: caller -> frame
    identity,          \* result of the last __eq__ / __hash__ call
    hashseed,          \* the process's string-hash seed
    tb_join_alerts,    \* rows of the join_alerts table
    alerts_cache,      \* WelcomeModel.alerts_cache
    sql                \* last statement WelcomeModel handed to sql.execute

vars == <<confusables_data, filters, raised, calls, identity, hashseed,
          tb_join_alerts, alerts_cache, sql>>

filterVars == <<confusables_data, filters, raised, calls, identity, hashseed>>
welcomeVars == <<tb_join_alerts, alerts_cache, sql>>

-----------------------------------------------------------------------------
(* Bounds of the explored input space.                                      *)

\* phrase length, general specification
MaxTextLen == 3
\* content length, general specification
MaxContentLen == 3
\* phrase length, evasion specification
MaxPhraseLen == 4
\* content length, whitespace specification
MaxSpaceLen == 2
\* phrase length, identity specification
MaxIdLen == 2
\* content length, concurrent specification
MaxConcLen == 2

TextAlphabet == {97, 42, 32}                  \* a * ' '
ContentAlphabet == {97, 65, 42, 32, 160, 1072} \* a A * ' ' NBSP Cyrillic-a
PhraseAlphabet == {97, 65, 42, 46, 32}        \* a A * . ' '

SeqsUpTo(S, n) == UNION {[1..k -> S] : k \in 0..n}

\* Tables the oracle may be backed by: none, Latin a ~ Cyrillic a, and a
\* table that also gives '*' the metacharacter '.' as a homoglyph.
ConfusablesTables ==
    { <<>>,
      (97 :> << <<1072>> >>),
      (97 :> << <<1072>> >>) @@ (42 :> << <<46>> >>) }

-----------------------------------------------------------------------------
(* Strings and the re module, as far as the filter uses them.               *)

Range(s) == {s[i] : i \in DOMAIN s}

RECURSIVE Concat(_)
Concat(ss) == IF ss = <<>> THEN <<>> ELSE Head(ss) \o Concat(Tail(ss))

\* re.escape puts a backslash before re's special characters,
\* ()[]{}?*+-|^$\.&~# and ASCII whitespace, and before nothing else.
SPECIAL_CHARS ==
    {40, 41, 91, 93, 123, 125, 63, 42, 43, 45, 124, 94, 36, 92, 46, 38, 126,
     35, 32, 9, 10, 13, 11, 12}

NoEscape(s) == s

RECURSIVE re_escape(_)
re_escape(s) ==
    IF s = <<>> THEN <<>>
    ELSE (IF Head(s) \in SPECIAL_CHARS THEN <<92, Head(s)>> ELSE <<Head(s)>>)
         \o re_escape(Tail(s))

\* str.lower on one code point (ASCII and basic Cyrillic capitals)
Lower(c) ==
    IF (c >= 65 /\ c <= 90) \/ (c >= 1040 /\ c <= 1071) THEN c + 32 ELSE c

\* One element of a compiled pattern: a set of code points or '.', and
\* whether a '*' follows it.
Atom(chars, any) == [chars |-> chars, any |-> any, rep |-> "one"]

ParseError == [ok |-> FALSE, items |-> <<>>]

\* A character set "[...]": i is the position after '['.  A backslash makes
\* the next character a member; the first unescaped ']' closes the set.
RECURSIVE sre_parse_set(_, _, _)
sre_parse_set(pat, i, acc) ==
    IF i > Len(pat) THEN [ok |-> FALSE, chars |-> {}, next |-> i]
    ELSE IF pat[i] = 93 /\ acc # {} THEN [ok |-> TRUE, chars |-> acc, next |-> i + 1]
    ELSE IF pat[i] = 92
         THEN IF i = Len(pat) THEN [ok |-> FALSE, chars |-> {}, next |-> i]
              ELSE sre_parse_set(pat, i + 2, acc \cup {pat[i + 1]})
    ELSE sre_parse_set(pat, i + 1, acc \cup {pat[i]})

\* The pattern syntax the filter can produce from the alphabets above:
\* literals, "\c", "[...]", '.', and the repeat '*' ("nothing to repeat" at
\* the start, "multiple repeat" after another '*').
RECURSIVE sre_parse(_, _, _)
sre_parse(pat, i, items) ==
    IF i > Len(pat) THEN [ok |-> TRUE, items |-> items]
    ELSE CASE pat[i] = 92 ->
                IF i = Len(pat) THEN ParseError
                ELSE sre_parse(pat, i + 2, Append(items, Atom({pat[i + 1]}, FALSE)))
           [] pat[i] = 91 ->
                LET set == sre_parse_set(pat, i + 1, {})
                IN  IF set.ok
                    THEN sre_parse(pat, set.next, Append(items, Atom(set.chars, FALSE)))
                    ELSE ParseError
           [] pat[i] = 46 -> sre_parse(pat, i + 1, Append(items, Atom({}, TRUE)))
           [] pat[i] = 42 ->
                IF items = <<>> \/ items[Len(items)].rep # "one" THEN ParseError
                ELSE sre_parse(pat, i + 1, [items EXCEPT ![Len(items)].rep = "star"])
           [] OTHER -> sre_parse(pat, i + 1, Append(items, Atom({pat[i]}, FALSE)))

\* re.compile(pattern, re.IGNORECASE): the pattern object, or re.error
re_compile(pattern) ==
    LET p == sre_parse(pattern, 1, <<>>)
    IN  [ok |-> p.ok, pattern |-> pattern, code |-> p.items]

\* one code point against one element, under IGNORECASE
CharMatches(item, c) ==
    \/ item.any /\ c # 10
    \/ \E x \in item.chars : Lower(x) = Lower(c)

\* the elements from k on match s starting at position i
RECURSIVE MatchAt(_, _, _, _)
MatchAt(code, k, s, i) ==
    IF k > Len(code) THEN TRUE
    ELSE IF code[k].rep = "star"
         THEN \/ (i <= Len(s) /\ CharMatches(code[k], s[i]) /\ MatchAt(code, k, s, i + 1))
              \/ MatchAt(code, k + 1, s, i)
         ELSE i <= Len(s) /\ CharMatches(code[k], s[i]) /\ MatchAt(code, k + 1, s, i + 1)

\* bool(regex.search(s)): a match starting anywhere in s
regex_search(regex, s) == \E i \in 1..(Len(s) + 1) : MatchAt(regex.code, 1, s, i)

-----------------------------------------------------------------------------
(* The confusables oracle.                                                  *)

\* confusables.is_confusable(string, greedy=True): one group for each
\* distinct character of string that has an entry, in order of appearance;
\* the empty result is falsy.
RECURSIVE is_confusable_from(_, _, _, _)
is_confusable_from(string, i, checked, data) ==
    IF i > Len(string) THEN <<>>
    ELSE IF string[i] \in checked \/ string[i] \notin DOMAIN data
         THEN is_confusable_from(string, i + 1, checked \cup {string[i]}, data)
         ELSE << [character |-> string[i], homoglyphs |-> data[string[i]]] >>
              \o is_confusable_from(string, i + 1, checked \cup {string[i]}, data)

is_confusable(string, data) == is_confusable_from(string, 1, {}, data)

-----------------------------------------------------------------------------
(* cogs/filter/filter.py                                                    *)

UNICODE_SPACES_MISSING_NBSP ==
    {32, 5760, 6158, 8192, 8193, 8194, 8195, 8196, 8197, 8198, 8199,
     8200, 8201, 8202, 8203, 8239, 8287, 12288, 65279}

\* UNICODE_SPACES_REGEX: the members of its character set
UNICODE_SPACES ==
    {32, 160, 5760,        \* u0020 u00a0 u1680
     6158, 8192, 8193,     \* u180e u2000 u2001
     8194, 8195, 8196,     \* u2002 u2003 u2004
     8197, 8198, 8198,     \* u2005 u2006 u2006
     8199, 8200, 8201,     \* u2007 u2008 u2009
     8202, 8203, 8239,     \* u200a u200b u202f
     8287, 12288, 65279}   \* u205f u3000 ufeff

\* UNICODE_SPACES_REGEX.sub("", content)
RECURSIVE strip_spaces(_)
strip_spaces(content) ==
    IF content = <<>> THEN <<>>
    ELSE (IF Head(content) \in UNICODE_SPACES THEN <<>> ELSE <<Head(content)>>)
         \o strip_spaces(Tail(content))

\* the fragment build_regex writes for one group
group_fragment(group) ==
    <<91>> \o re_escape(<<group.character>>)
           \o Concat([j \in DOMAIN group.homoglyphs |-> re_escape(group.homoglyphs[j])])
           \o <<93>>

\* build_regex, first loop: chars[char] = "[...]" for each group
RECURSIVE build_chars(_, _)
build_chars(groups, chars) ==
    IF groups = <<>> THEN chars
    ELSE build_chars(Tail(groups),
                     (Head(groups).character :> group_fragment(Head(groups))) @@ chars)

\* build_regex, second loop: pattern.write(chars.get(char, char))
RECURSIVE create_pattern(_, _)
create_pattern(text, chars) ==
    IF text = <<>> THEN <<>>
    ELSE (IF Head(text) \in DOMAIN chars THEN chars[Head(text)] ELSE <<Head(text)>>)
         \o create_pattern(Tail(text), chars)

build_regex(text, groups) == create_pattern(text, build_chars(groups, <<>>))

NoFilter == [status |-> "none"]

\* Filter.__init__: the new object, or the re.error that re.compile raises
Filter_init(text, data) ==
    LET groups == is_confusable(text, data)
        pattern == IF groups # <<>> THEN build_regex(text, groups) ELSE re_escape(text)
        regex == re_compile(pattern)
    IN  IF regex.ok
        THEN [status |-> "ok", text |-> text,
              regex |-> [pattern |-> regex.pattern, code |-> regex.code]]
        ELSE [status |-> "re.error"]

matches_unstripped(self, content) == regex_search(self.regex, content)

\* Filter.matches
Filter_matches(self, content) ==
    \/ regex_search(self.regex, content)
    \/ regex_search(self.regex, strip_spaces(content))

\* hash(self.text) ^ 0x2C6F024ED28 is computed on 64-bit integers, written
\* here as four 16-bit limbs, most significant first.
RECURSIVE BitXor(_, _)
BitXor(x, y) ==
    IF x = 0 THEN y
    ELSE IF y = 0 THEN x
    ELSE (((x % 2) + (y % 2)) % 2) + 2 * BitXor(x \div 2, y \div 2)

Xor64(x, y) == [k \in 1..4 |-> BitXor(x[k], y[k])]

HASH_SALT == <<0, 710, 61476, 60712>>        \* 0x0000 02C6 F024 ED28
MinusOne == <<65535, 65535, 65535, 65535>>
MinusTwo == <<65535, 65535, 65535, 65534>>

\* Values hash(str) may take (never -1): 0, 1, the salt, its complement, -2.
HashValues ==
    << <<0, 0, 0, 0>>, <<0, 0, 0, 1>>, HASH_SALT,
       <<65535, 64825, 4059, 4823>>, MinusTwo >>

HashSeeds == 0..4

\* hash(text) for a str: a function of the text and the process's seed
str_hash(text, seed) ==
    LET RECURSIVE Sum(_)
        Sum(i) == IF i > Len(text) THEN 0 ELSE i * text[i] + Sum(i + 1)
    IN  HashValues[((seed + Sum(1)) % Len(HashValues)) + 1]

\* the builtin hash(obj): the value of __hash__, with -1 replaced by -2
builtin_hash(h) == IF h = MinusOne THEN MinusTwo ELSE h

hash_unsalted(self, seed) == str_hash(self.text, seed)

\* Filter.__hash__
Filter_hash(self, seed) == Xor64(str_hash(self.text, seed), HASH_SALT)

eq_ignoring_case(self, other) ==
    /\ self.status = "ok"
    /\ other.status = "ok"
    /\ [i \in DOMAIN self.text |-> Lower(self.text[i])]
         = [i \in DOMAIN other.text |-> Lower(other.text[i])]

\* Filter.__eq__
Filter_eq(self, other) ==
    /\ self.status = "ok"
    /\ other.status = "ok"
    /\ self.text = other.text

-----------------------------------------------------------------------------
(* The filter as a state machine.                                           *)

Slots == {1, 2}
Callers == {1, 2}

NotRaised == [error |-> "none", text |-> <<>>]
IdleFrame == [pc |-> "idle", slot |-> 0, content |-> <<>>, contents |-> <<>>,
              idx |-> 0, result |-> FALSE]
NoIdentity == [eq |-> [a |-> 0, b |-> 0, value |-> FALSE],
               hash |-> [s \in Slots |-> <<>>]]

FilterInit ==
    /\ confusables_data \in ConfusablesTables
    /\ filters = [s \in Slots |-> NoFilter]
    /\ raised = NotRaised
    /\ calls = [c \in Callers |-> IdleFrame]
    /\ identity = NoIdentity
    /\ hashseed = 0

Guilds == {1, 2}
JoinAlertKeys == {"key_a", "key_b"}
ValueRelationships == {"op_a", "op_b"}
AlertValues == {"0", "1"}

NoStatement == [call |-> "none", stmt |-> "none", guild |-> 0, key |-> "",
                existed |-> FALSE, error |-> "none"]

\* WelcomeModel.__init__: the empty table and the empty defaultdict(dict)
WelcomeIdle ==
    /\ tb_join_alerts = {}
    /\ alerts_cache = [present |-> {}, keys |-> [g \in Guilds |-> {}]]
    /\ sql = NoStatement

\* Filter(text) is evaluated and, unless it raises, kept in a free slot.
Construct(slot, Texts) ==
    /\ filters[slot].status = "none"
    /\ \E text \in Texts :
        /\ LET new == Filter_init(text, confusables_data)
           IN  IF new.status = "ok"
               THEN /\ filters' = [filters EXCEPT ![slot] = new]
                    /\ raised' = NotRaised
               ELSE /\ filters' = filters
                    /\ raised' = [error |-> "re.error", text |-> text]
        /\ UNCHANGED <<confusables_data, calls, identity, hashseed, welcomeVars>>

\* self.matches(content), run to completion by one caller
Matches(caller, slot, Contents) ==
    /\ calls[caller].pc = "idle"
    /\ filters[slot].status = "ok"
    /\ \E content \in Contents :
        /\ calls' = [calls EXCEPT ![caller] =
                        [pc |-> "done", slot |-> slot, content |-> content,
                         contents |-> <<content, strip_spaces(content)>>,
                         idx |-> 0,
                         result |-> Filter_matches(filters[slot], content)]]
        /\ UNCHANGED <<confusables_data, filters, raised, identity, hashseed,
                       welcomeVars>>

\* matches(), first statement: contents = (content, SUB("", content)) --
\* with a stray assignment to the object, as a caching slip would make
matches_begin_caching(caller, slot, Contents) ==
    /\ calls[caller].pc = "idle"
    /\ filters[slot].status = "ok"
    /\ \E content \in Contents :
        /\ calls' = [calls EXCEPT ![caller] =
                        [pc |-> "search", slot |-> slot, content |-> content,
                         contents |-> <<content, strip_spaces(content)>>,
                         idx |-> 1, result |-> FALSE]]
        /\ filters' = [filters EXCEPT ![slot].text = strip_spaces(content)]
        /\ UNCHANGED <<confusables_data, raised, identity, hashseed, welcomeVars>>

\* matches(), first statement: contents = (content, SUB("", content))
matches_begin(caller, slot, Contents) ==
    /\ calls[caller].pc = "idle"
    /\ filters[slot].status = "ok"
    /\ \E content \in Contents :
        /\ calls' = [calls EXCEPT ![caller] =
                        [pc |-> "search", slot |-> slot, content |-> content,
                         contents |-> <<content, strip_spaces(content)>>,
                         idx |-> 1, result |-> FALSE]]
        /\ UNCHANGED <<confusables_data, filters, raised, identity, hashseed,
                       welcomeVars>>

\* matches(), one step of any(map(self.regex.search, contents)): search the
\* next candidate; any() returns at the first hit or after the last one.
matches_search(caller) ==
    /\ calls[caller].pc = "search"
    /\ LET frame == calls[caller]
           hit == regex_search(filters[frame.slot].regex, frame.contents[frame.idx])
       IN  calls' = [calls EXCEPT ![caller] =
                        IF hit THEN [frame EXCEPT !.pc = "done", !.result = TRUE]
                        ELSE IF frame.idx = 2 THEN [frame EXCEPT !.pc = "done"]
                        ELSE [frame EXCEPT !.idx = 2]]
    /\ UNCHANGED <<confusables_data, filters, raised, identity, hashseed,
                   welcomeVars>>

\* a == b for two Filter objects
Eq(a, b) ==
    /\ filters[a].status = "ok"
    /\ filters[b].status = "ok"
    /\ identity' = [identity EXCEPT
                       !.eq = [a |-> a, b |-> b, value |-> Filter_eq(filters[a], filters[b])]]
    /\ UNCHANGED <<confusables_data, filters, raised, calls, hashseed, welcomeVars>>

\* hash(a) for a Filter object
Hash(a) ==
    /\ filters[a].status = "ok"
    /\ identity' = [identity EXCEPT
                       !.hash[a] = builtin_hash(Filter_hash(filters[a], hashseed))]
    /\ UNCHANGED <<confusables_data, filters, raised, calls, hashseed, welcomeVars>>

Texts == SeqsUpTo(TextAlphabet, MaxTextLen)
Contents == SeqsUpTo(ContentAlphabet, MaxContentLen)

Init == FilterInit /\ WelcomeIdle

Next ==
    \/ Construct(1, Texts)
    \/ Matches(1, 1, Contents)

Spec == Init /\ [][Next]_vars

\* the frame of the single caller of Spec, and the filter it ran on
Call == calls[1]
Self == filters[1]
Done == Call.pc = "done"

-----------------------------------------------------------------------------
(* Evasion: the content is the phrase itself, or the phrase with one        *)
(* character replaced by one of its homoglyphs, or with one space-like      *)
(* code point inserted between two of its characters.                       *)

InsertedSpaces == {32, 160}

Substitutions(text, data) ==
    { SubSeq(text, 1, i - 1) \o h \o SubSeq(text, i + 1, Len(text)) :
        <<i, h>> \in { <<j, g>> \in (DOMAIN text) \X UNION {Range(data[c]) : c \in DOMAIN data} :
                          text[j] \in DOMAIN data /\ g \in Range(data[text[j]]) } }

Insertions(text) ==
    { SubSeq(text, 1, i) \o <<w>> \o SubSeq(text, i + 1, Len(text)) :
        <<i, w>> \in (1..(Len(text) - 1)) \X InsertedSpaces }

EvasionContents(text, data) == {text} \cup Substitutions(text, data) \cup Insertions(text)

Phrases == SeqsUpTo(PhraseAlphabet, MaxPhraseLen)

NextEvasion ==
    \/ Construct(1, Phrases)
    \/ Matches(1, 1, EvasionContents(filters[1].text, confusables_data))

SpecEvasion == Init /\ [][NextEvasion]_vars

-----------------------------------------------------------------------------
(* Whitespace: contents over the space-like code points U+0020 to U+FEFF    *)
(* that UNICODE_SPACES_REGEX lists, the line and paragraph separators, and  *)
(* a letter.                                                                *)

SpaceAlphabet ==
    {32, 160, 5760, 6158, 8192, 8193, 8194, 8195, 8196, 8197, 8198, 8199, 8200,
     8201, 8202, 8203, 8239, 8287, 12288, 65279, 8232, 8233, 97}
SpaceTexts == SeqsUpTo({97}, 1)
SpaceContents == SeqsUpTo(SpaceAlphabet, MaxSpaceLen)

NextSpaces ==
    \/ Construct(1, SpaceTexts)
    \/ Matches(1, 1, SpaceContents)

SpecSpaces == Init /\ [][NextSpaces]_vars

-----------------------------------------------------------------------------
(* Identity: two Filter objects built independently, compared and hashed.   *)

IdTexts == SeqsUpTo({97, 65}, MaxIdLen)

InitIdentity ==
    /\ confusables_data \in ConfusablesTables
    /\ filters = [s \in Slots |-> NoFilter]
    /\ raised = NotRaised
    /\ calls = [c \in Callers |-> IdleFrame]
    /\ identity = NoIdentity
    /\ hashseed \in HashSeeds
    /\ WelcomeIdle

NextIdentity ==
    \/ \E s \in Slots : Construct(s, IdTexts)
    \/ \E a, b \in Slots : Eq(a, b)
    \/ \E a \in Slots : Hash(a)

SpecIdentity == InitIdentity /\ [][NextIdentity]_vars

-----------------------------------------------------------------------------
(* Concurrency: two callers run matches() step by step on two objects.      *)

ConcTexts == SeqsUpTo({97}, MaxConcLen) \ {<<>>}
ConcContents == SeqsUpTo({97, 160}, MaxConcLen)

NextConcurrent ==
    \/ \E s \in Slots : Construct(s, ConcTexts)
    \/ \E c \in Callers, s \in Slots : matches_begin(c, s, ConcContents)
    \/ \E c \in Callers : matches_search(c)

SpecConcurrent == Init /\ [][NextConcurrent]_vars

-----------------------------------------------------------------------------
(* sql/models/welcome.py: the join alerts of WelcomeModel                   *)

RowsOf(guild, key) ==
    {r \in tb_join_alerts : r.guild_id = guild /\ r.alert_key = key}

\* add_alert: reading self.alerts_cache[guild] creates the guild's entry;
\* nothing ever stores a key in it.  The table's primary key is
\* (guild_id, alert_key): an INSERT of a present key raises IntegrityError.
add_alert(guild, alert) ==
    /\ alerts_cache' = [alerts_cache EXCEPT !.present = @ \cup {guild}]
    /\ IF alert.key \in alerts_cache.keys[guild]
       THEN /\ tb_join_alerts' =
                  { IF r.guild_id = guild /\ r.alert_key = alert.key
                    THEN [r EXCEPT !.op = alert.op, !.value = alert.value]
                    ELSE r : r \in tb_join_alerts }
            /\ sql' = [call |-> "add_alert", stmt |-> "UPDATE", guild |-> guild,
                       key |-> alert.key,
                       existed |-> RowsOf(guild, alert.key) # {}, error |-> "none"]
       ELSE IF RowsOf(guild, alert.key) # {}
            THEN /\ tb_join_alerts' = tb_join_alerts
                 /\ sql' = [call |-> "add_alert", stmt |-> "INSERT", guild |-> guild,
                            key |-> alert.key, existed |-> TRUE,
                            error |-> "IntegrityError"]
            ELSE /\ tb_join_alerts' = tb_join_alerts \cup
                        {[guild_id |-> guild, alert_key |-> alert.key,
                          op |-> alert.op, value |-> alert.value]}
                 /\ sql' = [call |-> "add_alert", stmt |-> "INSERT", guild |-> guild,
                            key |-> alert.key, existed |-> FALSE, error |-> "none"]
    /\ UNCHANGED filterVars

\* remove_alert
remove_alert(guild, key) ==
    /\ tb_join_alerts' = tb_join_alerts \ RowsOf(guild, key)
    /\ sql' = [call |-> "remove_alert", stmt |-> "DELETE", guild |-> guild,
               key |-> key, existed |-> RowsOf(guild, key) # {}, error |-> "none"]
    /\ UNCHANGED <<alerts_cache, filterVars>>

\* remove_all_alerts (also the on_guild_leave hook)
remove_all_alerts(guild) ==
    /\ tb_join_alerts' = {r \in tb_join_alerts : r.guild_id # guild}
    /\ sql' = [call |-> "remove_all_alerts", stmt |-> "DELETE", guild |-> guild,
               key |-> "",
               existed |-> (\E r \in tb_join_alerts : r.guild_id = guild),
               error |-> "none"]
    /\ UNCHANGED <<alerts_cache, filterVars>>

Alerts == [key : JoinAlertKeys, op : ValueRelationships, value : AlertValues]

InitWelcome ==
    /\ confusables_data = <<>>
    /\ filters = [s \in Slots |-> NoFilter]
    /\ raised = NotRaised
    /\ calls = [c \in Callers |-> IdleFrame]
    /\ identity = NoIdentity
    /\ hashseed = 0
    /\ WelcomeIdle

NextWelcome ==
    \/ \E g \in Guilds, alert \in Alerts : add_alert(g, alert)
    \/ \E g \in Guilds, k \in JoinAlertKeys : remove_alert(g, k)
    \/ \E g \in Guilds : remove_all_alerts(g)

SpecWelcome == InitWelcome /\ [][NextWelcome]_vars

-----------------------------------------------------------------------------
(* Properties.                                                              *)

\* s contains p at offset o, letter case ignored
OccursAt(s, p, o) ==
    /\ o + Len(p) <= Len(s)
    /\ \A i \in 1..Len(p) : Lower(s[o + i]) = Lower(p[i])

\* s contains p as a case-insensitive substring
ContainsIgnoreCase(s, p) == \E o \in 0..Len(s) : OccursAt(s, p, o)

\* s without its element at position pos
Remove(s, pos) == SubSeq(s, 1, pos - 1) \o SubSeq(s, pos + 1, Len(s))

\* the code points a phrase character stands for: itself and its homoglyphs
ClassOf(c, data) ==
    IF c \in DOMAIN data THEN {c} \cup UNION {Range(h) : h \in Range(data[c])} ELSE {c}

\* s contains, at offset o, the phrase with each character taken literally
\* or replaced by one of its homoglyphs, letter case ignored
LiteralAt(s, text, data, o) ==
    /\ o + Len(text) <= Len(s)
    /\ \A i \in 1..Len(text) :
          \E x \in ClassOf(text[i], data) : Lower(x) = Lower(s[o + i])

LiteralOccurs(s, text, data) == \E o \in 0..Len(s) : LiteralAt(s, text, data, o)

\* the pattern with every character that has no group escaped
RECURSIVE EscapedPattern(_, _)
EscapedPattern(text, chars) ==
    IF text = <<>> THEN <<>>
    ELSE (IF Head(text) \in DOMAIN chars THEN chars[Head(text)]
          ELSE re_escape(<<Head(text)>>))
         \o EscapedPattern(Tail(text), chars)

Groups == is_confusable(Self.text, confusables_data)

\* C1: a constructed filter accepts its own phrase: whenever matches is
\* called with content equal to the filter's text, it returns true.
C1_Reflexive == (Done /\ Call.content = Self.text) => Call.result

\* C2: characters of the phrase without a group are emitted escaped, and
\* so are matched literally: the pattern is the escaped one, and matches
\* is true exactly when one of the two candidates contains the phrase with
\* each character taken literally or as one of its homoglyphs.
C2_MetacharactersLiteral ==
    /\ Self.status = "ok" =>
          Self.regex.pattern = EscapedPattern(Self.text, build_chars(Groups, <<>>))
    /\ Done =>
          (Call.result <=>
              \/ LiteralOccurs(Call.contents[1], Self.text, confusables_data)
              \/ LiteralOccurs(Call.contents[2], Self.text, confusables_data))

\* C3: Filter(text) never raises: no construction ends in re.error.
C3_ConstructionNeverFails == raised.error = "none"

\* C4 as stated: if the content without one of its stripped-set code points
\* is matched and holds the phrase around the place of that code point, the
\* content is matched too.
C4_WhitespaceInsertion ==
    Done =>
      \A pos \in 1..Len(Call.content) :
        LET before == Remove(Call.content, pos)
        IN  ( /\ Call.content[pos] \in UNICODE_SPACES
              /\ Filter_matches(Self, before)
              /\ \E o \in 0..Len(before) :
                    /\ OccursAt(before, Self.text, o)
                    /\ o + 1 < pos
                    /\ pos <= o + Len(Self.text) )
            => Call.result

\* C4, amended: if the whitespace-stripped form of the content without one
\* of its stripped-set code points is matched by the pattern, the content
\* with that code point inserted is matched too.
C4_StrippedMatchSurvives ==
    Done =>
      \A pos \in 1..Len(Call.content) :
        ( /\ Call.content[pos] \in UNICODE_SPACES
          /\ regex_search(Self.regex, strip_spaces(Remove(Call.content, pos))) )
        => Call.result

\* "bad<NBSP>word": the insertion breaks the unstripped search, the phrase
\* has at least two characters, and matches still returns true
C4_Witness ==
    /\ Done
    /\ Call.result
    /\ Len(Self.text) >= 2
    /\ ~regex_search(Self.regex, Call.content)
    /\ \E pos \in 1..Len(Call.content) :
          /\ Call.content[pos] = 160
          /\ regex_search(Self.regex, Remove(Call.content, pos))

\* C5: replacing one character of the matched phrase by one of its
\* homoglyphs keeps the match.
C5_HomoglyphSubstitution ==
    ( /\ Done
      /\ Call.content \in Substitutions(Self.text, confusables_data)
      /\ Filter_matches(Self, Self.text) )
    => Call.result

\* C6 as stated: without groups, matches is true exactly when the content
\* contains the phrase as a case-insensitive substring.
C6_ExactSubstring ==
    (Done /\ Groups = <<>>) =>
        (Call.result <=> ContainsIgnoreCase(Call.content, Self.text))

\* C6, amended: without groups, matches is true exactly when the content
\* or the whitespace-stripped content contains the phrase as a
\* case-insensitive substring.
C6_SubstringOfEitherCandidate ==
    (Done /\ Groups = <<>>) =>
        (Call.result <=>
            \/ ContainsIgnoreCase(Call.content, Self.text)
            \/ ContainsIgnoreCase(strip_spaces(Call.content), Self.text))

\* the phrase is found only after stripping, in another letter case
C6_Witness ==
    /\ Done
    /\ Groups = <<>>
    /\ Len(Self.text) >= 2
    /\ Call.result
    /\ ~ContainsIgnoreCase(Call.content, Self.text)
    /\ 65 \in Range(Call.contents[2])
    /\ ContainsIgnoreCase(Call.contents[2], Self.text)

\* C7: a == b exactly when the texts are equal; equal objects have equal
\* hashes; the hash of an object differs from the hash of its text.
C7_IdentityIsText ==
    LET e == identity.eq
    IN  /\ e.a # 0 => (e.value <=> filters[e.a].text = filters[e.b].text)
        /\ (e.a # 0 /\ e.value /\ identity.hash[e.a] # <<>> /\ identity.hash[e.b] # <<>>)
              => identity.hash[e.a] = identity.hash[e.b]
        /\ \A s \in Slots :
              identity.hash[s] # <<>> =>
                  identity.hash[s] # builtin_hash(str_hash(filters[s].text, hashseed))

\* two objects built separately from the same text compare equal and their
\* hashes, both computed, agree
C7_Witness ==
    /\ identity.eq.a = 1
    /\ identity.eq.b = 2
    /\ identity.eq.value
    /\ Len(filters[1].text) = 2
    /\ identity.hash[1] # <<>>
    /\ identity.hash[1] = identity.hash[2]

EnumeratedSpaces ==
    {32, 160, 5760, 8194, 8195, 8201, 8202, 8232, 8233, 8239, 8287, 12288, 65279}

IsKept(c) == c \in {97, 8232, 8233}

\* C8 as stated: no enumerated separator, the line and paragraph separators
\* among them, is left in the stripped candidate.
C8_EnumeratedSpacesStripped ==
    Done => \A c \in EnumeratedSpaces : c \notin Range(Call.contents[2])

\* C8, amended: every enumerated separator except the line separator and
\* the paragraph separator is removed (not replaced) from the stripped
\* candidate; those two, like letters, stay in place.
C8_SpacesStrippedExceptLineSeparators ==
    Done =>
        /\ \A c \in EnumeratedSpaces \ {8232, 8233} : c \notin Range(Call.contents[2])
        /\ SelectSeq(Call.contents[2], IsKept) = SelectSeq(Call.content, IsKept)
        /\ Len(Call.contents[2]) = Len(SelectSeq(Call.content, IsKept))

\* NBSP is removed while a line separator next to it is kept
C8_Witness ==
    /\ Done
    /\ Call.content = <<8232, 160>>
    /\ Call.contents[2] = <<8232>>

\* C9: matches never changes a constructed object, and every finished call,
\* however its steps interleave with other calls, returns what matches
\* returns on the same object and content when run alone.
C9_ImmutableAndIsolated ==
    /\ [](\A c \in Callers :
            calls[c].pc = "done" =>
                calls[c].result = Filter_matches(filters[calls[c].slot], calls[c].content))
    /\ [][\A s \in Slots : filters[s].status = "ok" => filters'[s] = filters[s]]_vars

\* caller 1 has finished on an object while caller 2 is between its two
\* searches on the same object
C9_Witness ==
    /\ calls[1].pc = "done"
    /\ calls[1].result
    /\ calls[2].pc = "search"
    /\ calls[2].idx = 2
    /\ calls[2].slot = calls[1].slot

\* C10: at most one row per (guild, key), and add_alert for a key that has
\* a row updates it instead of inserting again.
C10_AddAlertUpdatesExisting ==
    /\ \A r1, r2 \in tb_join_alerts :
          (r1.guild_id = r2.guild_id /\ r1.alert_key = r2.alert_key) => r1 = r2
    /\ (sql.call = "add_alert" /\ sql.existed) => sql.stmt = "UPDATE"

====
